---- MODULE Spec2Model ----
(***************************************************************************)
(* Model of the OneDrive uploader: the bounded pool of concurrent uploads   *)
(* (src/src/upload.ts, scheduler loop), the per-file retry loop             *)
(* (uploadWithRetries / upload) and the task registry (taskUpdate /         *)
(* taskDelete of the progress module).                                      *)
(*                                                                          *)
(* A file is identified by its position in the discovered sequence; that    *)
(* position stands for its path (paths of discovered files are distinct).   *)
(* Byte offsets are counted in upload ranges (rangeSize, 5 MiB): a file of  *)
(* size s is acknowledged in s ranges [0,1), [1,2), ...  The number of      *)
(* ranges of a file is chosen independently of the byte size that the       *)
(* directory filter compares (a file kept by the filter is uploaded in a    *)
(* small number of ranges here, so that the interleavings can be explored). *)
(***************************************************************************)
EXTENDS Integers, Sequences, FiniteSets, TLC

\* ---------------------------------------------------------------- bounds
\* Largest number of discovered files in the pool specification.
MaxFiles == 6
\* Largest total size of the discovered files, in upload ranges, in the
\* resume specification.
MaxRanges == 4
\* The environment produces at most this many transient failures in a run.
MaxFailures == 1
\* Largest number of entries of the walked directory in the filter
\* specification.
MaxListed == 2

\* ------------------------------------------------------ program constants
MAX_TASK_NUM == 5
\* Backoff delay of the retry timer, in milliseconds.
RETRY_DELAY == 3000

\* Values of a LargeFileUploadSession variable: undefined, or the session the
\* collaborator created for the file.
NoSession == "undefined"
Session == "session"
Min(a, b) == IF a < b THEN a ELSE b

VARIABLES
  process,       \* "running", or how start-up stopped the process: "exit1"
                 \* (process.exit(1)) or "assert" (uncaught AssertionError)
  inputKind,     \* what fsStat says of the input path: "file", "directory",
                 \* "other"; "none" when start-up stopped before the stat
  listing,       \* the input file, or what walkdirSync returns for the input
                 \* directory: [id, name, bytes, ranges]
  files,         \* discovered files, in discovery order: [path, size, entry]
  pending,       \* the module variable `pending`: files not yet started
  pc,            \* per file: where its current uploadWithRetries call is
  args,          \* per file: (uploadDir, callback) of the current call
  uploadSession, \* per file: the local `uploadSession` of the current call
  offset,        \* per file: start of the next range of the current upload task
  timer,         \* per file: delay left on its setTimeout, -1 when none is armed
  tasks,         \* the registry `tasks` of the progress module
  shown,         \* the "Pending tasks" count last written by showProgress,
                 \* -1 before anything is rendered
  handed,        \* per file: the uploadSession option given to upload()
  cbCalls,       \* per file: number of times its completion callback ran
  err,           \* per file: what the catch of the current call caught:
                 \* "none" (nothing yet), "transient" (no error.code), "code"
  started,       \* paths in the order in which the scheduler started them
  failures,      \* transient failures produced so far
  ackedBefore,   \* per file: ranges acknowledged when its last attempt failed
  firstMin       \* per file: minValue of the first progress of the current
                 \* attempt, -1 before it

vars == <<process, inputKind, listing, files, pending, pc, args,
          uploadSession, handed, offset, timer,
          tasks, shown, cbCalls, err, started, failures, ackedBefore,
          firstMin>>

Paths == 1..Len(files)
SizeOf(p) == files[p].size

\* Elapsed wall-clock seconds between two reads of Date.now().
Elapsed == {0, 1}

\* upload.ts:266/274: path.join(uploadDir, path.dirname(file.path)), the
\* destination directory handed to uploadWithRetries for a file.
DestDir(path) == [base |-> "uploadDir", dirnameOf |-> path]

\* upload.ts:260-270: the completion callback.  Every closure made there has
\* the same text over the same `pending`, `root` and `uploadDir`, so the
\* closures are interchangeable and are modelled by one value.
Callback == "callback"

\* upload.ts:263-268 and 271-276: the arguments of the call for a file.
CallArgs(file) == [uploadDir |-> DestDir(file.path), callback |-> Callback]
NoArgs == [uploadDir |-> DestDir(0), callback |-> "undefined"]

\* (Variant: the queue is sliced one file too far, files.slice(MAX_TASK_NUM + 1).)
InitialPendingSkipsOne(fs) == SubSeq(fs, MAX_TASK_NUM + 2, Len(fs))

\* upload.ts:257: pending = files.slice(MAX_TASK_NUM)
InitialPending(fs) == SubSeq(fs, MAX_TASK_NUM + 1, Len(fs))

\* upload.ts:259: files.slice(0, MAX_TASK_NUM), the files started at once.
\* (Variant: one file more than the limit is started at once.)
InitialBatchBeyondLimit(fs) == SubSeq(fs, 1, Min(MAX_TASK_NUM + 1, Len(fs)))
InitialBatch(fs) == SubSeq(fs, 1, Min(MAX_TASK_NUM, Len(fs)))

\* upload.ts:146,153: the session handed to upload() is the local
\* `uploadSession`, declared undefined at line 146 of the same call and read
\* at line 153 before afterCreateUploadSession can assign it.
SessionArg(p) == NoSession

\* upload.ts:95-105,125-129: upload() either awaits createUploadSession (no
\* session handed) or resumes the task of the session it was handed.
UploadEntry(session) == IF session = NoSession THEN "creating" ELSE "uploading"

\* upload.ts:159-161: speed = (max - min) / ((Date.now() - timestamp) / 1000).
\* A division by zero yields Infinity (max > min for every reported range).
Speed(min, max, dt) ==
  IF dt = 0 THEN [finite |-> FALSE, value |-> 0]
            ELSE [finite |-> TRUE, value |-> (max - min) \div dt]

\* (Variant: the update adds the item's uploaded to the entry's.)
taskUpdateAccumulates(ts, item) ==
  IF \E i \in 1..Len(ts) : ts[i].filePath = item.filePath
    THEN [i \in 1..Len(ts) |->
            IF ts[i].filePath = item.filePath
              THEN [ts[i] EXCEPT !.speed = item.speed,
                                 !.uploaded = @ + item.uploaded]
              ELSE ts[i]]
    ELSE Append(ts, item)

\* (Variant: an item without an entry is not pushed.)
taskUpdateNeverAdds(ts, item) ==
  [i \in 1..Len(ts) |->
     IF ts[i].filePath = item.filePath
       THEN [ts[i] EXCEPT !.speed = item.speed, !.uploaded = item.uploaded]
       ELSE ts[i]]

\* progress module, taskUpdate: update speed and uploaded of the entry with
\* the item's filePath, or push the item when there is none.
taskUpdate(ts, item) ==
  IF \E i \in 1..Len(ts) : ts[i].filePath = item.filePath
    THEN [i \in 1..Len(ts) |->
            IF ts[i].filePath = item.filePath
              THEN [ts[i] EXCEPT !.speed = item.speed,
                                 !.uploaded = item.uploaded]
              ELSE ts[i]]
    ELSE Append(ts, item)

\* (Variant: the entry is left in the registry.)
taskDeleteKeepsEntry(ts, item) == ts

\* progress module, taskDelete: drop the entry with the item's filePath.
taskDelete(ts, item) ==
  SelectSeq(ts, LAMBDA t : t.filePath # item.filePath)

\* Whether the registry holds an entry for the item's filePath.
HasTask(ts, path) == \E i \in 1..Len(ts) : ts[i].filePath = path

\* progress module, showProgress as called by taskUpdate (line 109): the
\* screen is redrawn with state.pending.
shownByUpdate(state) == state.pending

\* progress module, showProgress as called by taskDelete (lines 115-123):
\* nothing is drawn when the registry has no entry for the item.
shownByDelete(ts, item, state, before) ==
  IF HasTask(ts, item.filePath) THEN state.pending ELSE before

\* --------------------------------------------------------------- start-up
\* upload.ts:18-39 and getEnvVars: the argument count, the existence of the
\* input path and the four environment variables are checked in this order.
Startup(argc, exists, envComplete) ==
  IF argc # 2 THEN "exit1"
  ELSE IF ~exists THEN "exit1"
  ELSE IF ~envComplete THEN "assert"
  ELSE "running"

\* String.prototype.endsWith on names given as sequences of characters.
endsWith(name, suffix) ==
  /\ Len(name) >= Len(suffix)
  /\ SubSeq(name, Len(name) - Len(suffix) + 1, Len(name)) = suffix

\* upload.ts:232: const suffixes = [".mp4", ".mkv"]
suffixes == << <<".", "m", "p", "4">>, <<".", "m", "k", "v">> >>

\* upload.ts:242: 10 * 1024 * 1024
SizeThreshold == 10 * 1024 * 1024

\* (Variant: the size test is >=.)
keptAtThreshold(entry) ==
  /\ \E i \in 1..Len(suffixes) : endsWith(entry.name, suffixes[i])
  /\ entry.bytes >= SizeThreshold

\* upload.ts:237-243: the filter callback of getFiles.
kept(entry) ==
  /\ \E i \in 1..Len(suffixes) : endsWith(entry.name, suffixes[i])
  /\ entry.bytes > SizeThreshold

\* upload.ts:223-252: getFiles.  A file given directly is taken unfiltered;
\* a directory's walk is filtered; anything else gives no file.
getFiles(kind, walk) ==
  IF kind = "file" THEN walk
  ELSE IF kind = "directory" THEN SelectSeq(walk, kept)
  ELSE <<>>

\* The discovered files as the scheduler sees them: position, number of
\* ranges, and the listing entry they come from.
Discovered(found) ==
  [i \in 1..Len(found) |->
     [path |-> i, size |-> found[i].ranges, entry |-> found[i].id]]

\* ------------------------------------------------------------------ Init
\* State after the module body of upload.ts has run for the discovered
\* files fs: the first MAX_TASK_NUM files have each had uploadWithRetries
\* called (and are suspended in createUploadSession), the rest are pending.
InitWith(fs) ==
  LET batch == InitialBatch(fs)
      P == 1..Len(fs)
      B == {batch[i].path : i \in 1..Len(batch)}
  IN  /\ files = fs
      /\ pending = InitialPending(fs)
      /\ pc = [p \in P |-> IF p \in B THEN UploadEntry(SessionArg(p))
                                      ELSE "pending"]
      /\ args = [p \in P |-> IF p \in B THEN CallArgs(fs[p]) ELSE NoArgs]
      /\ uploadSession = [p \in P |-> NoSession]
      /\ handed = [p \in P |-> NoSession]
      /\ offset = [p \in P |-> 0]
      /\ timer = [p \in P |-> -1]
      /\ tasks = <<>>
      /\ shown = -1
      /\ cbCalls = [p \in P |-> 0]
      /\ err = [p \in P |-> "none"]
      /\ started = [i \in 1..Len(batch) |-> batch[i].path]
      /\ failures = 0
      /\ ackedBefore = [p \in P |-> 0]
      /\ firstMin = [p \in P |-> -1]

\* The module body of upload.ts from its first line: start-up validation,
\* then getFiles on the input, then the scheduler start.  When start-up
\* stops the process nothing is statted and no file is discovered.
Start(argc, exists, envComplete, kind, walk) ==
  LET outcome == Startup(argc, exists, envComplete)
  IN  /\ process = outcome
      /\ IF outcome = "running"
           THEN /\ inputKind = kind
                /\ listing = walk
                /\ InitWith(Discovered(getFiles(kind, walk)))
           ELSE /\ inputKind = "none"
                /\ listing = <<>>
                /\ InitWith(<<>>)

\* Command lines and environments tried at start-up.
ArgCounts == 1..3

\* A video file larger than the threshold.
Video == <<"v", ".", "m", "p", "4">>

\* Walks of the pool specification: 0..MaxFiles video files of one range.
PoolInputs ==
  {[i \in 1..n |-> [id |-> i, name |-> Video, bytes |-> SizeThreshold + 1,
                    ranges |-> 1]] : n \in 0..MaxFiles}

\* Walks of the resume specification: every non-empty sequence of video
\* files of one or more ranges each, MaxRanges ranges at most in all.
RECURSIVE SumSizes(_)
SumSizes(sz) == IF sz = <<>> THEN 0 ELSE Head(sz) + SumSizes(Tail(sz))

ResumeInputs ==
  {[i \in DOMAIN sz |-> [id |-> i, name |-> Video,
                         bytes |-> SizeThreshold + 1, ranges |-> sz[i]]] :
     sz \in {z \in UNION {[1..n -> 1..MaxRanges] : n \in 1..MaxRanges} :
               SumSizes(z) <= MaxRanges}}

\* Names and byte sizes of the filter specification: the two allowed
\* extensions, an extension that differs in its last character, an allowed
\* extension that is not at the end; sizes around the threshold.
FilterNames ==
  { <<"v", ".", "m", "p", "4">>, <<"v", ".", "m", "k", "v">>,
    <<"v", ".", "m", "p", "3">>, <<".", "m", "p", "4", "~">> }
FilterBytes == {SizeThreshold - 1, SizeThreshold, SizeThreshold + 1}

\* Walks of the filter specification: up to MaxListed entries, one range each.
FilterInputs ==
  UNION {
    {[i \in 1..n |-> [id |-> i, name |-> nm[i], bytes |-> by[i],
                      ranges |-> 1]] :
       nm \in [1..n -> FilterNames], by \in [1..n -> FilterBytes]} :
    n \in 0..MaxListed}

Init ==
  \E argc \in ArgCounts, exists \in BOOLEAN, envComplete \in BOOLEAN :
    \E walk \in PoolInputs : Start(argc, exists, envComplete, "directory", walk)

InitResume ==
  \E argc \in ArgCounts, exists \in BOOLEAN, envComplete \in BOOLEAN :
    \E walk \in ResumeInputs :
      Start(argc, exists, envComplete, "directory", walk)

InitFilter ==
  \E argc \in ArgCounts, exists \in BOOLEAN, envComplete \in BOOLEAN :
    \E kind \in {"file", "directory", "other"} :
      \E walk \in FilterInputs :
        /\ kind = "file" => Len(walk) = 1
        /\ kind = "other" => walk = <<>>
        /\ Start(argc, exists, envComplete, kind, walk)

\* --------------------------------------------------------------- actions
\* upload.ts:139-153 with 95-97: a call uploadWithRetries(p, .., a.uploadDir,
\* a.callback), run up to the first await inside upload().  pcBase and
\* firstMinBase are pc and firstMin as the caller leaves them.  A resumed
\* task continues from the range the remote expects next (offset is kept).
uploadWithRetries(p, a, pcBase, firstMinBase) ==
  /\ pc' = [pcBase EXCEPT ![p] = UploadEntry(SessionArg(p))]
  /\ args' = [args EXCEPT ![p] = a]
  /\ uploadSession' = [uploadSession EXCEPT ![p] = NoSession]
  /\ handed' = [handed EXCEPT ![p] = SessionArg(p)]
  /\ err' = [err EXCEPT ![p] = "none"]
  /\ firstMin' = [firstMinBase EXCEPT ![p] = -1]
  /\ started' = IF pc[p] = "pending" THEN Append(started, p) ELSE started

\* upload.ts:95-105: createUploadSession returns a new session;
\* afterCreateUploadSession stores it in the caller's local (line 176) and
\* task.upload() starts from range 0.
CreateSessionOk(p) ==
  /\ pc[p] = "creating"
  /\ uploadSession' = [uploadSession EXCEPT ![p] = Session]
  /\ offset' = [offset EXCEPT ![p] = 0]
  /\ pc' = [pc EXCEPT ![p] = "uploading"]
  /\ UNCHANGED <<process, inputKind, listing, files, pending, args, handed,
                 timer, tasks, shown, cbCalls, err, started, failures,
                 ackedBefore, firstMin>>

\* (Variant: the callback shifts the queue and starts nothing.)
callbackShiftOnly(pcBase, firstMinBase) ==
  IF pending # <<>>
    THEN /\ pending' = Tail(pending)
         /\ pc' = pcBase
         /\ firstMin' = firstMinBase
         /\ UNCHANGED <<args, uploadSession, handed, err, started>>
    ELSE /\ pc' = pcBase
         /\ firstMin' = firstMinBase
         /\ UNCHANGED <<pending, args, uploadSession, handed, err, started>>

\* upload.ts:260-270: the completion callback: shift the head of `pending`
\* and call uploadWithRetries for it, with this callback again.
callback(pcBase, firstMinBase) ==
  IF pending # <<>>
    THEN LET next == Head(pending)
         IN  /\ pending' = Tail(pending)
             /\ uploadWithRetries(next.path, CallArgs(next), pcBase,
                                  firstMinBase)
    ELSE /\ pc' = pcBase
         /\ firstMin' = firstMinBase
         /\ UNCHANGED <<pending, args, uploadSession, handed, err, started>>

\* upload.ts:155-173 and 180-190: the remote acknowledges the next range of
\* file p, dt seconds after the previous read of Date.now().  The progress
\* handler runs (taskUpdate).  When the range is the last one of the file,
\* upload() resolves in the same turn of the event loop and the continuation
\* of uploadWithRetries runs before any other event: taskDelete, then the
\* callback.
RangeAcknowledged(p, dt) ==
  /\ pc[p] = "uploading"
  /\ LET range == [minValue |-> offset[p], maxValue |-> offset[p] + 1]
         speed == Speed(range.minValue, range.maxValue, dt)
         state == [pending |-> Len(pending)]
         updated == taskUpdate(tasks, [filePath |-> p, size |-> SizeOf(p),
                                       speed |-> speed,
                                       uploaded |-> range.maxValue])
         finished == [filePath |-> p, size |-> SizeOf(p),
                      speed |-> Speed(0, 0, 1), uploaded |-> SizeOf(p)]
         fm == [firstMin EXCEPT ![p] = IF @ = -1 THEN range.minValue ELSE @]
     IN  /\ offset' = [offset EXCEPT ![p] = range.maxValue]
         /\ IF range.maxValue = SizeOf(p)
              THEN /\ tasks' = taskDelete(updated, finished)
                   /\ shown' = shownByDelete(updated, finished, state,
                                             shownByUpdate(state))
                   /\ IF args[p].callback = Callback
                        THEN /\ cbCalls' = [cbCalls EXCEPT ![p] = @ + 1]
                             /\ callback([pc EXCEPT ![p] = "done"], fm)
                        ELSE /\ pc' = [pc EXCEPT ![p] = "done"]
                             /\ firstMin' = fm
                             /\ UNCHANGED <<pending, args, uploadSession,
                                            handed, err, started, cbCalls>>
              ELSE /\ tasks' = updated
                   /\ shown' = shownByUpdate(state)
                   /\ firstMin' = fm
                   /\ UNCHANGED <<pending, pc, args, uploadSession, handed,
                                  err, started, cbCalls>>
  /\ UNCHANGED <<process, inputKind, listing, files, timer, failures,
                 ackedBefore>>

\* The await of upload() is pending: createUploadSession or a range request
\* has not been answered yet.
InFlight(p) == pc[p] \in {"creating", "uploading"}

\* (Variant: the timer is armed while the attempt stays in flight.)
TransientFailKeepsAttempt(p) ==
  /\ InFlight(p)
  /\ failures < MaxFailures
  /\ failures' = failures + 1
  /\ err' = [err EXCEPT ![p] = "transient"]
  /\ timer' = [timer EXCEPT ![p] = RETRY_DELAY]
  /\ UNCHANGED <<process, inputKind, listing, files, pending, pc, args,
                 uploadSession, handed, offset, tasks, shown, cbCalls,
                 started, firstMin, ackedBefore>>

\* (Variant: the catch also shifts the queue.)
TransientFailShiftsQueue(p) ==
  /\ InFlight(p)
  /\ failures < MaxFailures
  /\ failures' = failures + 1
  /\ err' = [err EXCEPT ![p] = "transient"]
  /\ timer' = [timer EXCEPT ![p] = RETRY_DELAY]
  /\ ackedBefore' = [ackedBefore EXCEPT ![p] =
                       IF pc[p] = "uploading" THEN offset[p] ELSE @]
  /\ pc' = [pc EXCEPT ![p] = "backoff"]
  /\ pending' = IF pending # <<>> THEN Tail(pending) ELSE pending
  /\ UNCHANGED <<process, inputKind, listing, files, args, uploadSession,
                 handed, offset, tasks, shown, cbCalls, started, firstMin>>

\* upload.ts:191-197: upload() rejected with an error without error.code:
\* setTimeout(.., 3000).
TransientFail(p) ==
  /\ InFlight(p)
  /\ failures < MaxFailures
  /\ failures' = failures + 1
  /\ err' = [err EXCEPT ![p] = "transient"]
  /\ timer' = [timer EXCEPT ![p] = RETRY_DELAY]
  /\ ackedBefore' = [ackedBefore EXCEPT ![p] =
                       IF pc[p] = "uploading" THEN offset[p] ELSE @]
  /\ pc' = [pc EXCEPT ![p] = "backoff"]
  /\ UNCHANGED <<process, inputKind, listing, files, pending, args,
                 uploadSession, handed, offset, tasks, shown, cbCalls,
                 started, firstMin>>

\* (Variant: the catch does not return on error.code and arms the timer.)
PermanentFailRetries(p) ==
  /\ InFlight(p)
  /\ err' = [err EXCEPT ![p] = "code"]
  /\ timer' = [timer EXCEPT ![p] = RETRY_DELAY]
  /\ pc' = [pc EXCEPT ![p] = "backoff"]
  /\ UNCHANGED <<process, inputKind, listing, files, pending, args,
                 uploadSession, handed, offset, tasks, shown, cbCalls,
                 started, failures, ackedBefore, firstMin>>

\* (Variant: the error with error.code is rethrown and ends the process.)
PermanentFailExits(p) ==
  /\ InFlight(p)
  /\ err' = [err EXCEPT ![p] = "code"]
  /\ pc' = [pc EXCEPT ![p] = "failed"]
  /\ process' = "exit1"
  /\ UNCHANGED <<inputKind, listing, files, pending, args, uploadSession,
                 handed, offset, timer, tasks, shown, cbCalls, started,
                 failures, ackedBefore, firstMin>>

\* upload.ts:191-194: upload() rejected with an error carrying error.code:
\* return.
PermanentFail(p) ==
  /\ InFlight(p)
  /\ err' = [err EXCEPT ![p] = "code"]
  /\ pc' = [pc EXCEPT ![p] = "failed"]
  /\ UNCHANGED <<process, inputKind, listing, files, pending, args,
                 uploadSession, handed, offset, timer, tasks, shown, cbCalls,
                 started, failures, ackedBefore, firstMin>>

\* (Variant: the timer's function calls nothing.)
TimerFireCallsNothing(p) ==
  /\ pc[p] = "backoff"
  /\ timer[p] = RETRY_DELAY
  /\ timer' = [timer EXCEPT ![p] = -1]
  /\ UNCHANGED <<process, inputKind, listing, files, pending, pc, args,
                 uploadSession, handed, offset, tasks, shown, cbCalls, err,
                 started, failures, ackedBefore, firstMin>>

\* (Variant: the retry is called without the callback.)
TimerFireDropsCallback(p) ==
  /\ pc[p] = "backoff"
  /\ timer[p] = RETRY_DELAY
  /\ timer' = [timer EXCEPT ![p] = -1]
  /\ uploadWithRetries(p, [args[p] EXCEPT !.callback = "undefined"], pc,
                       firstMin)
  /\ UNCHANGED <<process, inputKind, listing, files, pending, offset, tasks,
                 shown, cbCalls, failures, ackedBefore>>

\* upload.ts:195-197: the timer fires: uploadWithRetries(filePath, fileSize,
\* uploadDir, callback) with the arguments of the failed call.
TimerFire(p) ==
  /\ pc[p] = "backoff"
  /\ timer[p] = RETRY_DELAY
  /\ timer' = [timer EXCEPT ![p] = -1]
  /\ uploadWithRetries(p, args[p], pc, firstMin)
  /\ UNCHANGED <<process, inputKind, listing, files, pending, offset, tasks,
                 shown, cbCalls, failures, ackedBefore>>

Next ==
  \/ \E p \in Paths : CreateSessionOk(p)
  \/ \E p \in Paths : \E dt \in Elapsed : RangeAcknowledged(p, dt)
  \/ \E p \in Paths : TransientFail(p)
  \/ \E p \in Paths : PermanentFail(p)
  \/ \E p \in Paths : TimerFire(p)

Spec == Init /\ [][Next]_vars

SpecResume == InitResume /\ [][Next]_vars

SpecFilter == InitFilter /\ [][Next]_vars

\* An event of the event loop that the program is waiting for is delivered:
\* an HTTP response, or an expired timer.
Deliver ==
  \/ \E p \in Paths : CreateSessionOk(p)
  \/ \E p \in Paths : \E dt \in Elapsed : RangeAcknowledged(p, dt)
  \/ \E p \in Paths : TimerFire(p)

\* The steps of a run in which no upload fails permanently: the provider
\* never answers with an error that carries error.code.
NextNoPermanentFail ==
  \/ \E p \in Paths : CreateSessionOk(p)
  \/ \E p \in Paths : \E dt \in Elapsed : RangeAcknowledged(p, dt)
  \/ \E p \in Paths : TransientFail(p)
  \/ \E p \in Paths : TimerFire(p)

\* The pool specification for the runs without a permanent failure, with
\* every awaited response and every armed timer eventually delivered.  The
\* transient failures of a run are finitely many (at most MaxFailures).
FairSpec == Init /\ [][NextNoPermanentFail]_vars /\ WF_vars(Deliver)

\* ---------------------------------------------------------------- claims
\* Files that hold an upload slot: an attempt in flight, or a retry waiting
\* on its backoff timer.
Slots == {p \in Paths : pc[p] \in {"creating", "uploading", "backoff"}}

\* C1: in every reachable state at most MAX_TASK_NUM files hold an upload
\* slot, whatever the number of discovered files and the interleaving of
\* acknowledgements, failures and timers.
C1_SlotsWithinLimit == Cardinality(Slots) <= MAX_TASK_NUM

\* C1 witness: more files than slots were discovered, one upload has
\* completed and started the pending file, one file waits on its backoff
\* timer, and all MAX_TASK_NUM slots are held.
C1_Witness ==
  /\ Len(files) > MAX_TASK_NUM
  /\ Cardinality(Slots) = MAX_TASK_NUM
  /\ \E p \in Paths : pc[p] = "backoff"
  /\ \E p \in Paths : pc[p] = "done"

\* C2 (as claimed): a retry that follows a transient failure of a call that
\* had obtained a session hands that session to upload() and does not create
\* a session again.
C2_RetryReusesSession ==
  [][\A p \in Paths :
       (pc[p] = "backoff" /\ pc'[p] # "backoff" /\ uploadSession[p] # NoSession)
         => (handed'[p] = uploadSession[p] /\ pc'[p] # "creating")]_vars

\* C3 (as claimed): the first range reported to the progress handler of a
\* retried attempt starts at or after the ranges acknowledged when the
\* previous attempt failed.  (firstMin is reset when the retry is called; while
\* the file waits in backoff it still holds the failed attempt's value.)
C3_RetryResumesAtAcknowledged ==
  \A p \in Paths :
    (pc[p] # "backoff" /\ firstMin[p] # -1) => firstMin[p] >= ackedBefore[p]

\* C4 (as claimed): between two successive states of the registry, the
\* uploaded value of a file's entry never decreases while the entry exists.
C4_UploadedNeverDecreases ==
  [][\A i \in 1..Len(tasks) : \A j \in 1..Len(tasks') :
       tasks[i].filePath = tasks'[j].filePath
         => tasks'[j].uploaded >= tasks[i].uploaded]_vars

\* C5 (as claimed): a permanent failure never leaves a pending file unstarted
\* forever.  Once no file holds a slot nothing can happen any more (no
\* request is outstanding and no timer is armed), so in such a state the
\* pending queue must be empty.
C5_NoPendingFileStranded == Slots = {} => pending = <<>>

\* C6 (as claimed): while the pending queue is non-empty, exactly
\* MAX_TASK_NUM files hold an upload slot.
C6_AllSlotsBusyWhilePending ==
  pending # <<>> => Cardinality(Slots) = MAX_TASK_NUM

C11_FailedFileHasNoTask ==
  \A p \in Paths : pc[p] = "failed" => ~HasTask(tasks, p)

\* C12: the step in which a file's upload succeeds removes the file's entry
\* from the registry, and does so before the callback runs (the screen drawn
\* by taskDelete shows the queue length from before the callback's shift);
\* the callback is invoked in that step, for the first and only time; the
\* file has no entry afterwards.  This covers a success after a transient
\* failure.
C12_SuccessDeletesThenCallsBack ==
  [][\A p \in Paths :
       /\ (pc[p] # "done" /\ pc'[p] = "done") =>
            /\ ~HasTask(tasks', p)
            /\ shown' = Len(pending)
            /\ cbCalls[p] = 0
            /\ cbCalls'[p] = 1
       /\ pc[p] = "done" =>
            /\ pc'[p] = "done"
            /\ cbCalls'[p] = cbCalls[p]
            /\ ~HasTask(tasks', p)]_vars

\* C12 witness: more files than slots, one of them failed transiently, and
\* every file has succeeded since: each callback was invoked once, the
\* queue was shifted by them, and the registry is empty.
C12_Witness ==
  /\ Len(files) > MAX_TASK_NUM
  /\ failures > 0
  /\ \A p \in Paths : pc[p] = "done" /\ cbCalls[p] = 1
  /\ Len(started) = Len(files)
  /\ tasks = <<>>

\* C13: every entry of the task registry has 0 <= uploaded <= size.
C13_UploadedWithinSize ==
  \A i \in 1..Len(tasks) :
    /\ 0 <= tasks[i].uploaded
    /\ tasks[i].uploaded <= tasks[i].size

\* C13 witness: a partly uploaded file whose earlier attempt failed after
\* acknowledged ranges has an entry again in the retry.
C13_Witness ==
  \E i \in 1..Len(tasks) :
    /\ 0 < tasks[i].uploaded
    /\ tasks[i].uploaded < tasks[i].size
    /\ ackedBefore[tasks[i].filePath] > 0
    /\ pc[tasks[i].filePath] = "uploading"
    /\ firstMin[tasks[i].filePath] # -1

\* C15 (as stated): the speed stored in a task entry is always finite.
C15_StoredSpeedFinite ==
  \A i \in 1..Len(tasks) : tasks[i].speed.finite

\* The listing entry with identity id is among the discovered files.
Included(id) == \E i \in 1..Len(files) : files[i].entry = id

\* The discovered file p is in the active set (started) or in the queue.
ActiveOrPending(p) ==
  \/ \E i \in 1..Len(started) : started[i] = p
  \/ \E i \in 1..Len(pending) : pending[i].path = p

\* One of the two allowed extensions ends the name.
SuffixMatched(name) ==
  \E i \in 1..Len(suffixes) : endsWith(name, suffixes[i])

\* C14: a failed attempt of file p, transient or permanent, does not stop
\* the process and changes nothing of another file: the registry, the queue
\* and every other file's position, arguments, session, offset, timer,
\* callback count and slot are as before.  The process is stopped only by
\* start-up validation: no step stops it, and a stopped process has
\* discovered and started nothing.
C14_FailureIsContained ==
  /\ [](process # "running" =>
          files = <<>> /\ started = <<>> /\ listing = <<>>)
  /\ [][/\ process' = process
        /\ \A p \in Paths :
             (err'[p] # err[p] /\ err'[p] # "none") =>
               /\ process' = "running"
               /\ tasks' = tasks
               /\ pending' = pending
               /\ started' = started
               /\ \A q \in Paths \ {p} :
                    /\ pc'[q] = pc[q]
                    /\ args'[q] = args[q]
                    /\ uploadSession'[q] = uploadSession[q]
                    /\ offset'[q] = offset[q]
                    /\ timer'[q] = timer[q]
                    /\ cbCalls'[q] = cbCalls[q]
                    /\ err'[q] = err[q]
                    /\ (q \in Slots') = (q \in Slots)]_vars

\* C14 witness: one file has failed permanently while another, with an
\* entry in the registry, is still being uploaded by a running process.
C14_Witness ==
  /\ process = "running"
  /\ \E p, q \in Paths :
       /\ p # q
       /\ pc[p] = "failed"
       /\ err[p] = "code"
       /\ pc[q] = "uploading"
       /\ HasTask(tasks, q)

\* C16 (as stated): of a directory, a file is discovered (and so put in the
\* active set or the queue) if and only if its name ends with .mp4 or .mkv
\* and its size is at least 10 MiB.
C16_DirectoryFilterAtLeast ==
  inputKind = "directory" =>
    \A k \in 1..Len(listing) :
      Included(listing[k].id) <=>
        (SuffixMatched(listing[k].name) /\ listing[k].bytes >= SizeThreshold)

\* C16 (amended): of a directory, a file is discovered if and only if its
\* name ends with .mp4 or .mkv and its size is greater than 10 MiB; every
\* discovered file is in the active set or the queue and comes from the
\* listing, so every other file is in neither.
C16_DirectoryFilterStrict ==
  inputKind = "directory" =>
    /\ \A k \in 1..Len(listing) :
         Included(listing[k].id) <=>
           (SuffixMatched(listing[k].name) /\ listing[k].bytes > SizeThreshold)
    /\ \A p \in Paths :
         /\ ActiveOrPending(p)
         /\ \E k \in 1..Len(listing) : listing[k].id = files[p].entry

\* C16 witness: a directory holds a video file of exactly 10 MiB, which is
\* left out, and a larger one, which has been uploaded.
C16_Witness ==
  /\ inputKind = "directory"
  /\ \E j, k \in 1..Len(listing) :
       /\ SuffixMatched(listing[j].name)
       /\ listing[j].bytes = SizeThreshold
       /\ ~Included(listing[j].id)
       /\ SuffixMatched(listing[k].name)
       /\ listing[k].bytes = SizeThreshold + 1
       /\ \E p \in Paths : files[p].entry = listing[k].id /\ pc[p] = "done"

\* C17 (as stated): every file whose upload has been started and has not
\* succeeded has an entry in the registry.
C17_StartedFileHasTask ==
  \A i \in 1..Len(started) :
    pc[started[i]] # "done" => HasTask(tasks, started[i])

\* C17 (amended): the entry of a file is created by the file's first
\* progress event, not by the start of its upload: an entry appears only in
\* a step that acknowledges a range of that file, and from then on the file
\* has an entry until it succeeds; a file that is queued or has succeeded
\* has none.
C17_TaskCreatedByFirstProgress ==
  /\ [](\A p \in Paths :
          /\ (offset[p] > 0 /\ pc[p] # "done") => HasTask(tasks, p)
          /\ HasTask(tasks, p) => pc[p] \notin {"pending", "done"})
  /\ [][\A p \in Paths :
          (~HasTask(tasks, p) /\ HasTask(tasks', p)) =>
            (pc[p] = "uploading" /\ offset'[p] = offset[p] + 1)]_vars

\* C17 witness: two files are being uploaded; one has had a range
\* acknowledged and has an entry, the other has had none and has no entry.
C17_Witness ==
  \E p, q \in Paths :
    /\ pc[p] = "uploading" /\ offset[p] = 0 /\ ackedBefore[p] = 0
    /\ ~HasTask(tasks, p)
    /\ pc[q] = "uploading" /\ offset[q] > 0
    /\ HasTask(tasks, q)

\* Nothing is left to do: the queue is empty, no file holds a slot, the
\* registry is empty and the callback of every file has run once.
AllDone ==
  /\ pending = <<>>
  /\ Slots = {}
  /\ tasks = <<>>
  /\ \A p \in Paths : pc[p] = "done" /\ cbCalls[p] = 1

\* C18: in the runs where every awaited event is eventually delivered, no
\* file fails permanently and the transient failures are finitely many,
\* the program reaches, and stays in, a state where the queue is empty, no
\* slot is held, the registry is empty and every file has completed exactly
\* once.
C18_EventuallyAllDone == <>[]AllDone

\* C18 witness: the largest input has been uploaded completely, by a
\* running process, after as many transient failures as the environment
\* produces.
C18_Witness ==
  /\ process = "running"
  /\ Len(files) = MaxFiles
  /\ failures = MaxFailures
  /\ AllDone

\* C19: a file has a backoff timer exactly while it waits for its retry, so
\* never together with an attempt in flight; a timer is armed only by the
\* failure of an attempt in flight, one per failure; an attempt begins only
\* for the head of the queue, which is removed, or for a file whose timer
\* fires; no file is started twice or is both started and queued.
C19_OneAttemptOrTimerPerFile ==
  /\ [](/\ \A p \in Paths :
            /\ (timer[p] # -1) <=> (pc[p] = "backoff")
            /\ ~(InFlight(p) /\ timer[p] # -1)
            /\ ~(/\ pc[p] = "pending"
                 /\ \E i \in 1..Len(started) : started[i] = p)
        /\ \A i, j \in 1..Len(started) : started[i] = started[j] => i = j
        /\ \A i, j \in 1..Len(pending) :
             pending[i].path = pending[j].path => i = j)
  /\ [][\A p \in Paths :
          /\ (timer[p] = -1 /\ timer'[p] # -1) =>
               /\ InFlight(p)
               /\ err'[p] = "transient"
               /\ failures' = failures + 1
               /\ \A q \in Paths \ {p} : timer'[q] = timer[q]
          /\ (pc[p] # "creating" /\ pc'[p] = "creating") =>
               \/ /\ pc[p] = "pending"
                  /\ pending # <<>>
                  /\ Head(pending).path = p
                  /\ pending' = Tail(pending)
                  /\ started' = Append(started, p)
               \/ /\ pc[p] = "backoff"
                  /\ timer[p] # -1
                  /\ timer'[p] = -1
                  /\ started' = started]_vars

\* C19 witness: a file waits on its timer with no attempt in flight, while
\* another file, taken from the queue by the scheduler, is in flight.
C19_Witness ==
  \E p, q \in Paths :
    /\ pc[p] = "backoff" /\ timer[p] = RETRY_DELAY /\ err[p] = "transient"
    /\ q > MAX_TASK_NUM
    /\ InFlight(q)
    /\ started[Len(started)] = q

\* C20: the queue changes only in the step in which an upload succeeds and
\* its callback runs, and then loses its head, which is started; no file is
\* started otherwise; a step that puts a file in backoff or takes it out
\* of backoff changes neither the queue nor the started files, and a file
\* in backoff holds its slot.
C20_QueueChangedOnlyByCallback ==
  /\ [](\A p \in Paths : pc[p] = "backoff" => p \in Slots /\ p \notin
          {pending[i].path : i \in 1..Len(pending)})
  /\ [][/\ pending' # pending =>
             /\ pending' = Tail(pending)
             /\ started' = Append(started, Head(pending).path)
             /\ \E p \in Paths :
                  /\ pc[p] = "uploading"
                  /\ pc'[p] = "done"
                  /\ cbCalls'[p] = cbCalls[p] + 1
        /\ started' # started => pending' # pending
        /\ \A p \in Paths :
             (pc'[p] # pc[p] /\ "backoff" \in {pc[p], pc'[p]}) =>
               /\ pending' = pending
               /\ started' = started
               /\ p \in Slots']_vars

\* C20 witness: all slots are held, one of them by a file in backoff, and a
\* file waits in the queue.
C20_Witness ==
  /\ pending # <<>>
  /\ \E S \in SUBSET Paths :
       /\ S = Slots
       /\ \E p \in S : pc[p] = "backoff"
       /\ \A i \in 1..Len(pending) : pending[i].path \notin S
       /\ Len(started) = MAX_TASK_NUM
====
